---- MODULE Spec2Model ----
(***************************************************************************)
(* I2Cdev / Fastwire (plainC/I2Cdev) as a state machine.                   *)
(*                                                                         *)
(* The program is a bus-master driver: every Fastwire function writes the  *)
(* TWI control register, spin-waits for the operation-complete flag and    *)
(* reads the status register.  One action of the model is one such bus     *)
(* step (or the glue code between two of them); the peripheral and the     *)
(* slave device are the environment and answer each step with a delay and  *)
(* a status.  Control is a program counter pc with a stack of return       *)
(* labels, one frame record for each of the three layers                   *)
(* (I2Cdev bit-field functions, I2Cdev_read/writeBytes/Words, Fastwire).   *)
(***************************************************************************)
EXTENDS Integers, Sequences, FiniteSets, TLC

(***************************************************************************)
(* Bounds of the model                                                     *)
(***************************************************************************)
\* deviations from the nominal answer the peripheral may show in one run
MaxFaults == 3
\* bytes of register file the simulated slave device holds
DevSize == 4
\* bus events recorded per run; later events are not recorded
MaxWire == 300
\* deviations the peripheral may show during a call that reads more than MaxLen items
BigFaults == 1
\* longest array the client passes to a write, and to a read besides BigLens
MaxLen == 3

(***************************************************************************)
(* Program constants                                                       *)
(***************************************************************************)
TW_START == 8
TW_REP_START == 16
TW_MT_SLA_ACK == 24
TW_MT_SLA_NACK == 32
TW_MT_DATA_ACK == 40
TW_MT_DATA_NACK == 48
TW_MT_ARB_LOST == 56
TW_MR_SLA_ACK == 64
TW_MR_SLA_NACK == 72
TW_MR_DATA_ACK == 80
TW_MR_DATA_NACK == 88
\* TWSR & 0xF8 == 0: bus error (no named constant in the source)
TW_BUS_ERROR == 0
I2CDEV_DEFAULT_READ_TIMEOUT == 1000
\* int l = 250 in Fastwire_waitInt
SpinBudget == 250
\* retry = 2 in every address phase
RetryBudget == 2

\* a value no code has stored yet (an uninitialised local or buffer element)
Uninit == -1

(***************************************************************************)
(* Fixed-width arithmetic                                                  *)
(***************************************************************************)
RECURSIVE Pow2(_)
Pow2(n) == IF n = 0 THEN 1 ELSE 2 * Pow2(n - 1)

U8(x) == x % 256
U16(x) == x % 65536
\* uint32_t as two 16-bit halves
W32(n) == [hi |-> (n \div 65536) % 65536, lo |-> n % 65536]
Max32 == [hi |-> 65535, lo |-> 65535]
Add32(x, y) ==
    [hi |-> (x.hi + y.hi + ((x.lo + y.lo) \div 65536)) % 65536,
     lo |-> (x.lo + y.lo) % 65536]
Sub32(x, y) ==
    [hi |-> (x.hi + 131072 - y.hi - (IF x.lo < y.lo THEN 1 ELSE 0)) % 65536,
     lo |-> (x.lo + 65536 - y.lo) % 65536]
\* x >= t for a uint32_t x and a uint16_t t
Ge32(x, t) == x.hi > 0 \/ x.lo >= t
\* conversion of a value 0..255 to int8_t (two's complement, as avr-gcc does)
I8(x) == IF U8(x) >= 128 THEN U8(x) - 256 ELSE U8(x)

RECURSIVE BitAnd(_, _)
BitAnd(a, c) ==
    IF a = 0 \/ c = 0 THEN 0
    ELSE (a % 2) * (c % 2) + 2 * BitAnd(a \div 2, c \div 2)

RECURSIVE BitOr(_, _)
BitOr(a, c) ==
    IF a = 0 THEN c
    ELSE IF c = 0 THEN a
    ELSE (IF a % 2 = 1 \/ c % 2 = 1 THEN 1 ELSE 0) + 2 * BitOr(a \div 2, c \div 2)

Shl(a, n) == a * Pow2(n)
Shr(a, n) == a \div Pow2(n)

(***************************************************************************)
(* State                                                                   *)
(***************************************************************************)
VARIABLES
    pc,       \* label of the statement the program executes next
    stack,    \* return labels of the calls in progress, innermost first
    call,     \* the public call in progress: its name and arguments
    prog,     \* calls the client issues after this one
    xfer,     \* frame of I2Cdev_readBytes/readWords/writeBytes/writeWords
    fw,       \* frame of the Fastwire function in progress
    fwret,    \* value the last Fastwire function returned
    xret,     \* value the last I2Cdev_read*/write* transfer function returned
    ret,      \* value the public call returned
    buf,      \* byte buffer Fastwire_readBuf stores into (uint8_t *data)
    out,      \* the caller's *data of a bit-field or word read
    b,        \* local b / w of the bit-field functions
    wire,     \* bus steps the master has made, in order
    twdr,     \* TWDR as the program last wrote or the peripheral last loaded it
    bus,      \* protocol state of the peripheral and the addressed slave
    mem,      \* register file of the slave device
    ptr,      \* register pointer of the slave device
    msec,     \* the millisecond counter (msec.c)
    faults,   \* deviations from the nominal answer the peripheral may still show
    garbage,  \* what reading uninitialised or out-of-bounds memory yields
    okWaits,  \* spin-waits of the public call that saw the flag in time
    wait,     \* the last Fastwire_waitInt of the call: polls made, flag seen, result
    hist      \* the previous public call of the client and what it left

vars == <<pc, stack, call, prog, xfer, fw, fwret, xret, ret, buf, out, b, wire,
          twdr, bus, mem, ptr, msec, faults, garbage, okWaits, wait, hist>>

ctl == <<pc, stack>>
env == <<bus, mem, ptr>>

(***************************************************************************)
(* The peripheral and the slave device (environment)                       *)
(***************************************************************************)
\* polls that see the flag clear before the one that sees it set
DelayNone == SpinBudget - SpinBudget
DelaySlow == SpinBudget - 1
DelayLast == SpinBudget
DelayNever == SpinBudget + 1
SlowDelays == {DelaySlow, DelayLast, DelayNever}

\* TWSR as the peripheral nominally reports it after a bus step
NominalStatus(kind, cr, dr) ==
    CASE kind = "START" ->
            IF bus = "idle" \/ cr = "STO|STA" THEN TW_START ELSE TW_REP_START
      [] kind = "TX" ->
            IF bus = "start"
            THEN (IF dr % 2 = 1 THEN TW_MR_SLA_ACK ELSE TW_MT_SLA_ACK)
            ELSE IF bus \in {"mt_reg", "mt"} THEN TW_MT_DATA_ACK
            ELSE TW_MT_DATA_NACK
      [] kind = "RX" ->
            IF cr = "GO|EA" THEN TW_MR_DATA_ACK ELSE TW_MR_DATA_NACK
      [] OTHER -> TW_BUS_ERROR

\* the other statuses the peripheral can report after that step
FaultStatus(kind, cr, dr) ==
    CASE kind = "START" -> {TW_START, TW_REP_START, TW_MT_ARB_LOST, TW_BUS_ERROR}
      [] kind = "TX" ->
            IF bus = "start"
            THEN (IF dr % 2 = 1
                  THEN {TW_MR_SLA_NACK, TW_MT_ARB_LOST, TW_BUS_ERROR}
                  ELSE {TW_MT_SLA_NACK, TW_MT_ARB_LOST, TW_BUS_ERROR})
            ELSE {TW_MT_DATA_ACK, TW_MT_DATA_NACK, TW_MT_ARB_LOST, TW_BUS_ERROR}
      [] kind = "RX" ->
            {TW_MR_DATA_ACK, TW_MR_DATA_NACK, TW_MT_ARB_LOST, TW_BUS_ERROR}
      [] OTHER -> {}

\* the answers (delay d, status s) the peripheral may give to a bus step
Answers(kind, cr, dr) ==
    LET nom == NominalStatus(kind, cr, dr) IN
    {[d |-> DelayNone, s |-> nom]}
    \cup (IF faults > 0
          THEN {[d |-> dd, s |-> nom] : dd \in SlowDelays}
               \cup {[d |-> DelayNone, s |-> x] : x \in FaultStatus(kind, cr, dr) \ {nom}}
          ELSE {})

Cost(kind, cr, dr, a) ==
    IF a.d = DelayNone /\ a.s = NominalStatus(kind, cr, dr) THEN 0 ELSE 1

\* the peripheral completes the operation unless the flag never comes
Completes(a) == a.d < DelayNever

BusAfter(kind, a) ==
    CASE ~Completes(a) -> "off"
      [] kind = "START" ->
            IF a.s \in {TW_START, TW_REP_START} THEN "start" ELSE "off"
      [] kind = "TX" ->
            IF bus = "start" /\ a.s = TW_MT_SLA_ACK THEN "mt_reg"
            ELSE IF bus = "start" /\ a.s = TW_MR_SLA_ACK THEN "mr"
            ELSE IF bus \in {"mt_reg", "mt"} /\ a.s = TW_MT_DATA_ACK THEN "mt"
            ELSE "off"
      [] kind = "RX" ->
            IF bus = "mr" /\ a.s \in {TW_MR_DATA_ACK, TW_MR_DATA_NACK} THEN "mr" ELSE "off"
      [] OTHER -> "idle"

\* the slave stores an acknowledged data byte; the first one is the register address
MemAfter(kind, dr, a) ==
    IF kind = "TX" /\ Completes(a) /\ bus = "mt" /\ a.s = TW_MT_DATA_ACK
    THEN [mem EXCEPT ![ptr] = dr]
    ELSE mem

PtrAfter(kind, dr, a) ==
    CASE kind = "TX" /\ Completes(a) /\ bus = "mt_reg" /\ a.s = TW_MT_DATA_ACK -> dr % DevSize
      [] kind = "TX" /\ Completes(a) /\ bus = "mt" /\ a.s = TW_MT_DATA_ACK -> (ptr + 1) % DevSize
      [] kind = "RX" /\ Completes(a) /\ bus = "mr" -> (ptr + 1) % DevSize
      [] OTHER -> ptr

\* TWDR after the step: the byte the slave sent, or what the program wrote
TwdrAfter(kind, dr, a) ==
    IF kind = "RX" /\ Completes(a)
    THEN (IF bus = "mr" THEN mem[ptr] ELSE 255)
    ELSE IF kind = "TX" THEN dr ELSE twdr

(***************************************************************************)
(* Fastwire_waitInt                                                        *)
(***************************************************************************)
\* while (!(TWCR & (1 << TWINT)) && l-- > 0);
\* poll k (k = 0, 1, ...) reads the flag while l = SpinBudget - k; the flag is set
\* from poll d on.  The loop ends at the first poll that sees the flag set or
\* finds l-- > 0 false.
WaitExitPoll(d) ==
    LET ends == {k \in 0 .. SpinBudget : k >= d \/ ~(SpinBudget - k > 0)}
    IN  CHOOSE k \in ends : \A j \in ends : k <= j

\* l when the loop has ended: l-- is not evaluated when the flag was seen set
WaitExitL(d) ==
    LET k == WaitExitPoll(d)
    IN  IF k >= d THEN SpinBudget - k ELSE SpinBudget - k - 1

\* return l > 0
WaitResult(l) == l > 0

\* how many times the loop read TWCR, and whether its last read saw TWINT set
WaitPolls(d) == WaitExitPoll(d) + 1
WaitSaw(d) == WaitExitPoll(d) >= d

Delays == {DelayNone} \cup SlowDelays
WaitLog == [d \in Delays |->
               [polls |-> WaitPolls(d), saw |-> WaitSaw(d), ok |-> WaitResult(WaitExitL(d))]]
\* before the first wait of a call
NoWait == [polls |-> 0, saw |-> FALSE, ok |-> FALSE]
WaitTable == [d \in Delays |-> WaitResult(WaitExitL(d))]

Fastwire_waitInt(d) == WaitTable[d]

\* twst = TWSR & 0xF8 (the prescaler bits of TWSR are zero after Fastwire_setup)
Twst(twsr) == BitAnd(twsr, 248)

(***************************************************************************)
(* Frames and calling convention                                           *)
(***************************************************************************)
NoCall == [op |-> "none", devAddr |-> 0, regAddr |-> 0, bit |-> 0, length |-> 0,
           value |-> 0, data |-> <<>>, timeout |-> 0]
NoXfer == [fn |-> "none", devAddr |-> 0, regAddr |-> 0, length |-> 0, data |-> <<>>,
           timeout |-> 0, t1 |-> W32(0), status |-> 0, i |-> 0, count |-> 0]
NoFw == [fn |-> "none", device |-> 0, address |-> 0, num |-> 0, value |-> 0,
         retry |-> 0, twst |-> Uninit, i |-> 0, data |-> <<>>]
\* op .. mem: the client's previous call, what it returned, the register file before it;
\* rd: what Fastwire_readBuf last returned to a read of the call in progress
NoHist == [op |-> "none", bit |-> 0, length |-> 0, value |-> 0, ret |-> 0, mem |-> <<>>,
           rd |-> Uninit]

\* return v to the caller: the label on top of the stack
Return(v) ==
    /\ pc' = Head(stack)
    /\ stack' = Tail(stack)
    /\ ret' = IF Head(stack) = "done" THEN v ELSE ret

FwReturn(v) == fwret' = v /\ xret' = xret /\ Return(v)
XReturn(v) == xret' = v /\ fwret' = fwret /\ Return(v)

\* reading a byte that may never have been stored
Val(x) == IF x = Uninit THEN garbage ELSE x
\* reading a 16-bit word that was never stored
GarbageWord == garbage * 257

(***************************************************************************)
(* One bus step: the program has written TWDR (dr, or Uninit when it did   *)
(* not) and TWCR (cr), and spin-waits; the peripheral answers a.           *)
(* res is what the code makes of the answer.                               *)
(***************************************************************************)
Record(e) == IF Len(wire) < MaxWire THEN Append(wire, e) ELSE wire

Min(x, y) == IF x < y THEN x ELSE y

BusStep(kind, label, cr, dr, a, res) ==
    /\ bus' = BusAfter(kind, a)
    /\ mem' = MemAfter(kind, dr, a)
    /\ ptr' = PtrAfter(kind, dr, a)
    /\ twdr' = TwdrAfter(kind, dr, a)
    /\ faults' = faults - Cost(kind, cr, dr, a)
    /\ okWaits' = IF Fastwire_waitInt(a.d) THEN Min(okWaits + 1, MaxWire) ELSE okWaits
    /\ wire' = Record(<<label, cr, dr, res,
                         IF kind = "RX" /\ res = "ok" THEN TwdrAfter(kind, dr, a) ELSE Uninit>>)
    /\ wait' = WaitLog[a.d]

\* the values the program writes to TWCR, and the bits each one sets
CR_START == "STO|STA"
CR_GO == "GO"
CR_GO_ACK == "GO|EA"
CR_STOP == "STO"
CRBits(cr) ==
    CASE cr = CR_START -> {"TWINT", "TWEN", "TWSTO", "TWSTA"}
      [] cr = CR_GO -> {"TWINT", "TWEN"}
      [] cr = CR_GO_ACK -> {"TWINT", "TWEN", "TWEA"}
      [] cr = CR_STOP -> {"TWINT", "TWEN", "TWSTO"}

\* the fields of an entry of wire
EvOp(e) == e[1]
EvCR(e) == CRBits(e[2])
EvDR(e) == e[3]
EvRes(e) == e[4]
EvRX(e) == e[5]

\* what the code of a START step makes of the answer
StartRes(a) ==
    IF ~Fastwire_waitInt(a.d) THEN "timeout"
    ELSE IF Twst(a.s) \notin {TW_START, TW_REP_START} THEN "bad"
    ELSE "ok"

\* what the code of an address step makes of the answer
AddrRes(a, ack, nack) ==
    IF ~Fastwire_waitInt(a.d) THEN "timeout"
    ELSE IF Twst(a.s) = ack THEN "ok"
    ELSE IF Twst(a.s) = nack THEN "nack"
    ELSE "bad"

(***************************************************************************)
(* Fastwire_beginTransmission                                              *)
(***************************************************************************)
BeginTransmission_Enter(device) ==
    /\ fw' = [NoFw EXCEPT !.fn = "Fastwire_beginTransmission", !.device = device,
                          !.retry = RetryBudget]
    /\ pc' = "bt_start"

BeginTransmission_Start ==
    /\ pc = "bt_start"
    /\ \E a \in Answers("START", CR_START, Uninit) :
         LET res == StartRes(a) IN
         /\ BusStep("START", "START", CR_START, Uninit, a, res)
         /\ fw' = [fw EXCEPT !.twst = IF res = "timeout" THEN @ ELSE Twst(a.s)]
         /\ CASE res = "timeout" -> FwReturn(1)
              [] res = "bad" -> FwReturn(2)
              [] OTHER -> pc' = "bt_addr" /\ UNCHANGED <<stack, fwret, xret, ret>>
    /\ UNCHANGED <<call, prog, xfer, buf, out, b, msec, garbage, hist>>

\* variant: the loop test with retry-- >= 0
RetryAgain_Extra(twst, retry, nack) == twst = nack /\ retry >= 0

\* variant: the loop also goes round again after a bus error
RetryAgain_AnyStatus(twst, retry, nack) == (twst = nack \/ twst = TW_BUS_ERROR) /\ retry > 0

\* the loop test: twst == TW_MT_SLA_NACK && retry-- > 0
RetryAgain(twst, retry, nack) == twst = nack /\ retry > 0
RetryAfter(twst, retry, nack) == IF twst = nack THEN U8(retry + 255) ELSE retry

BeginTransmission_Addr ==
    /\ pc = "bt_addr"
    /\ LET dr == U8(Shl(fw.device, 1)) IN
       \E a \in Answers("TX", CR_GO, dr) :
         LET res == AddrRes(a, TW_MT_SLA_ACK, TW_MT_SLA_NACK)
             twst == Twst(a.s) IN
         /\ BusStep("TX", "ADDR", CR_GO, dr, a, res)
         /\ IF res = "timeout"
            THEN fw' = fw /\ FwReturn(3)
            ELSE /\ fw' = [fw EXCEPT !.twst = twst,
                                     !.retry = RetryAfter(twst, @, TW_MT_SLA_NACK)]
                 /\ IF RetryAgain(twst, fw.retry, TW_MT_SLA_NACK)
                    THEN pc' = "bt_start" /\ UNCHANGED <<stack, fwret, xret, ret>>
                    ELSE IF twst # TW_MT_SLA_ACK THEN FwReturn(4) ELSE FwReturn(0)
    /\ UNCHANGED <<call, prog, xfer, buf, out, b, msec, garbage, hist>>

(***************************************************************************)
(* Fastwire_write and Fastwire_stop: one bus step each                     *)
(***************************************************************************)
Fastwire_write_ret(a) ==
    IF ~Fastwire_waitInt(a.d) THEN 1
    ELSE IF Twst(a.s) # TW_MT_DATA_ACK THEN 2
    ELSE 0

WriteRes(a) ==
    CASE Fastwire_write_ret(a) = 1 -> "timeout"
      [] Fastwire_write_ret(a) = 2 -> "nack"
      [] OTHER -> "ok"

\* variant: TWDR is not loaded, the byte that goes out is what TWDR held
Fastwire_write_Stale(value, label, a) ==
    BusStep("TX", label, CR_GO, twdr, a, WriteRes(a))

Fastwire_write(value, label, a) ==
    BusStep("TX", label, CR_GO, value, a, WriteRes(a))

Fastwire_stop_ret(a) == IF ~Fastwire_waitInt(a.d) THEN 1 ELSE 0

Fastwire_stop(a) ==
    BusStep("STOP", "STOP", CR_STOP, Uninit, a,
            IF Fastwire_stop_ret(a) = 1 THEN "timeout" ELSE "ok")

(***************************************************************************)
(* I2Cdev_writeBytes                                                       *)
(***************************************************************************)
WriteBytes_Begin ==
    /\ pc = "I2Cdev_writeBytes"
    /\ xfer' = [xfer EXCEPT !.status = 0, !.i = 0]
    /\ BeginTransmission_Enter(xfer.devAddr)
    /\ stack' = <<"wB_reg">> \o stack
    /\ UNCHANGED <<call, prog, fwret, xret, ret, buf, out, b, wire, twdr, env, msec,
                   faults, garbage, okWaits, wait, hist>>

WriteBytes_Reg ==
    /\ pc = "wB_reg"
    /\ \E a \in Answers("TX", CR_GO, xfer.regAddr) :
         /\ Fastwire_write(xfer.regAddr, "REG", a)
         /\ fwret' = Fastwire_write_ret(a)
    /\ pc' = "wB_data"
    /\ UNCHANGED <<stack, call, prog, xfer, fw, xret, ret, buf, out, b, msec, garbage, hist>>

\* variant: the loop sends data[length-1-i]
WriteBytes_Data_Reversed ==
    /\ pc = "wB_data"
    /\ xfer.i < xfer.length
    /\ LET v == U8(xfer.data[xfer.length - xfer.i]) IN
       \E a \in Answers("TX", CR_GO, v) :
         /\ Fastwire_write(v, "DATA", a)
         /\ fwret' = Fastwire_write_ret(a)
    /\ xfer' = [xfer EXCEPT !.i = U8(@ + 1)]
    /\ UNCHANGED <<ctl, call, prog, fw, xret, ret, buf, out, b, msec, garbage, hist>>

WriteBytes_Data ==
    /\ pc = "wB_data"
    /\ xfer.i < xfer.length
    /\ LET v == U8(xfer.data[xfer.i + 1]) IN
       \E a \in Answers("TX", CR_GO, v) :
         /\ Fastwire_write(v, "DATA", a)
         /\ fwret' = Fastwire_write_ret(a)
    /\ xfer' = [xfer EXCEPT !.i = U8(@ + 1)]
    /\ UNCHANGED <<ctl, call, prog, fw, xret, ret, buf, out, b, msec, garbage, hist>>

\* return status == 0
WriteBytes_Result(status) == IF status = 0 THEN 1 ELSE 0

WriteBytes_Stop ==
    /\ pc = "wB_data"
    /\ ~(xfer.i < xfer.length)
    /\ \E a \in Answers("STOP", CR_STOP, Uninit) : Fastwire_stop(a)
    /\ XReturn(WriteBytes_Result(xfer.status))
    /\ UNCHANGED <<call, prog, xfer, fw, buf, out, b, msec, garbage, hist>>

(***************************************************************************)
(* I2Cdev_writeWords                                                       *)
(***************************************************************************)
\* data[i] of a uint16_t array of Len(data) elements
WordAt(data, i) == IF i < Len(data) THEN data[i + 1] ELSE GarbageWord

WriteWords_Begin ==
    /\ pc = "I2Cdev_writeWords"
    /\ xfer' = [xfer EXCEPT !.status = 0, !.i = 0]
    /\ BeginTransmission_Enter(xfer.devAddr)
    /\ stack' = <<"wW_reg">> \o stack
    /\ UNCHANGED <<call, prog, fwret, xret, ret, buf, out, b, wire, twdr, env, msec,
                   faults, garbage, okWaits, wait, hist>>

WriteWords_Reg ==
    /\ pc = "wW_reg"
    /\ \E a \in Answers("TX", CR_GO, xfer.regAddr) :
         /\ Fastwire_write(xfer.regAddr, "REG", a)
         /\ fwret' = Fastwire_write_ret(a)
    /\ pc' = "wW_msb"
    /\ UNCHANGED <<stack, call, prog, xfer, fw, xret, ret, buf, out, b, msec, garbage, hist>>

\* the loop test i < length * 2, in int
WriteWords_More(i, length) == i < length * 2

\* index of the loop after one iteration: data[i++] and the loop's i++
WriteWords_NextIndex(i) == U8(U8(i + 1) + 1)

WriteWords_MSB ==
    /\ pc = "wW_msb"
    /\ WriteWords_More(xfer.i, xfer.length)
    /\ LET v == U8(Shr(WordAt(xfer.data, xfer.i), 8)) IN
       \E a \in Answers("TX", CR_GO, v) :
         /\ Fastwire_write(v, "MSB", a)
         /\ fwret' = Fastwire_write_ret(a)
    /\ pc' = "wW_lsb"
    /\ UNCHANGED <<stack, call, prog, xfer, fw, xret, ret, buf, out, b, msec, garbage, hist>>

WriteWords_LSB ==
    /\ pc = "wW_lsb"
    /\ LET v == U8(WordAt(xfer.data, xfer.i)) IN
       \E a \in Answers("TX", CR_GO, v) :
         /\ Fastwire_write(v, "LSB", a)
         /\ fwret' = Fastwire_write_ret(a)
         /\ IF Fastwire_write_ret(a) # 0
            THEN /\ xfer' = [xfer EXCEPT !.status = Fastwire_write_ret(a), !.i = U8(@ + 1)]
                 /\ pc' = "wW_stop"
            ELSE /\ xfer' = [xfer EXCEPT !.status = 0, !.i = WriteWords_NextIndex(@)]
                 /\ pc' = "wW_msb"
    /\ UNCHANGED <<stack, call, prog, fw, xret, ret, buf, out, b, msec, garbage, hist>>

WriteWords_Stop ==
    /\ \/ pc = "wW_stop"
       \/ pc = "wW_msb" /\ ~WriteWords_More(xfer.i, xfer.length)
    /\ \E a \in Answers("STOP", CR_STOP, Uninit) : Fastwire_stop(a)
    /\ XReturn(WriteBytes_Result(xfer.status))
    /\ UNCHANGED <<call, prog, xfer, fw, buf, out, b, msec, garbage, hist>>

(***************************************************************************)
(* Fastwire_readBuf                                                        *)
(***************************************************************************)
ReadBuf_Enter(device, address, num) ==
    /\ fw' = [NoFw EXCEPT !.fn = "Fastwire_readBuf", !.device = device,
                          !.address = address, !.num = num, !.retry = RetryBudget]
    /\ pc' = "rb_start1"

ReadBuf_Start1 ==
    /\ pc = "rb_start1"
    /\ \E a \in Answers("START", CR_START, Uninit) :
         LET res == StartRes(a) IN
         /\ BusStep("START", "START", CR_START, Uninit, a, res)
         /\ fw' = [fw EXCEPT !.twst = IF res = "timeout" THEN @ ELSE Twst(a.s)]
         /\ CASE res = "timeout" -> FwReturn(16)
              [] res = "bad" -> FwReturn(17)
              [] OTHER -> pc' = "rb_addr1" /\ UNCHANGED <<stack, fwret, xret, ret>>
    /\ UNCHANGED <<call, prog, xfer, buf, out, b, msec, garbage, hist>>

ReadBuf_Addr1 ==
    /\ pc = "rb_addr1"
    /\ LET dr == BitAnd(fw.device, 254) IN
       \E a \in Answers("TX", CR_GO, dr) :
         LET res == AddrRes(a, TW_MT_SLA_ACK, TW_MT_SLA_NACK)
             twst == Twst(a.s) IN
         /\ BusStep("TX", "ADDR", CR_GO, dr, a, res)
         /\ IF res = "timeout"
            THEN fw' = fw /\ FwReturn(18)
            ELSE /\ fw' = [fw EXCEPT !.twst = twst,
                                     !.retry = RetryAfter(twst, @, TW_MT_SLA_NACK)]
                 /\ IF RetryAgain(twst, fw.retry, TW_MT_SLA_NACK)
                    THEN pc' = "rb_start1" /\ UNCHANGED <<stack, fwret, xret, ret>>
                    ELSE IF twst # TW_MT_SLA_ACK THEN FwReturn(19)
                    ELSE pc' = "rb_reg" /\ UNCHANGED <<stack, fwret, xret, ret>>
    /\ UNCHANGED <<call, prog, xfer, buf, out, b, msec, garbage, hist>>

ReadBuf_Reg ==
    /\ pc = "rb_reg"
    /\ \E a \in Answers("TX", CR_GO, fw.address) :
         LET res == WriteRes(a) IN
         /\ BusStep("TX", "REG", CR_GO, fw.address, a, res)
         /\ CASE res = "timeout" -> fw' = fw /\ FwReturn(20)
              [] res = "nack" -> fw' = [fw EXCEPT !.twst = Twst(a.s)] /\ FwReturn(21)
              [] OTHER -> /\ fw' = [fw EXCEPT !.twst = Twst(a.s), !.retry = RetryBudget]
                          /\ pc' = "rb_start2"
                          /\ UNCHANGED <<stack, fwret, xret, ret>>
    /\ UNCHANGED <<call, prog, xfer, buf, out, b, msec, garbage, hist>>

ReadBuf_Start2 ==
    /\ pc = "rb_start2"
    /\ \E a \in Answers("START", CR_START, Uninit) :
         LET res == StartRes(a) IN
         /\ BusStep("START", "START", CR_START, Uninit, a, res)
         /\ fw' = [fw EXCEPT !.twst = IF res = "timeout" THEN @ ELSE Twst(a.s)]
         /\ CASE res = "timeout" -> FwReturn(22)
              [] res = "bad" -> FwReturn(23)
              [] OTHER -> pc' = "rb_addr2" /\ UNCHANGED <<stack, fwret, xret, ret>>
    /\ UNCHANGED <<call, prog, xfer, buf, out, b, msec, garbage, hist>>

ReadBuf_Addr2 ==
    /\ pc = "rb_addr2"
    /\ LET dr == BitOr(fw.device, 1) IN
       \E a \in Answers("TX", CR_GO, dr) :
         LET res == AddrRes(a, TW_MR_SLA_ACK, TW_MR_SLA_NACK)
             twst == Twst(a.s) IN
         /\ BusStep("TX", "ADDR", CR_GO, dr, a, res)
         /\ IF res = "timeout"
            THEN fw' = fw /\ FwReturn(24)
            ELSE /\ fw' = [fw EXCEPT !.twst = twst,
                                     !.retry = RetryAfter(twst, @, TW_MR_SLA_NACK),
                                     !.i = 0]
                 /\ IF RetryAgain(twst, fw.retry, TW_MR_SLA_NACK)
                    THEN pc' = "rb_start2" /\ UNCHANGED <<stack, fwret, xret, ret>>
                    ELSE IF twst # TW_MR_SLA_ACK THEN FwReturn(25)
                    ELSE pc' = "rb_data" /\ UNCHANGED <<stack, fwret, xret, ret>>
    /\ UNCHANGED <<call, prog, xfer, buf, out, b, msec, garbage, hist>>

\* variant: the test for the last byte is i == num
ReadBuf_DataCR_OffByOne(i, num) == IF i = num THEN CR_GO ELSE CR_GO_ACK

\* TWCR of the step that clocks in byte i of num
ReadBuf_DataCR(i, num) == IF i = num - 1 THEN CR_GO ELSE CR_GO_ACK

\* statuses the data loop goes on with; any other is returned as the result
ReadBuf_DataOk(twst) == twst = TW_MR_DATA_ACK \/ twst = TW_MR_DATA_NACK

ReadBuf_Data ==
    /\ pc = "rb_data"
    /\ fw.i < fw.num
    /\ LET cr == ReadBuf_DataCR(fw.i, fw.num) IN
       \E a \in Answers("RX", cr, Uninit) :
         LET ok == Fastwire_waitInt(a.d)
             twst == Twst(a.s)
             res == IF ~ok THEN "timeout" ELSE IF ReadBuf_DataOk(twst) THEN "ok" ELSE "bad" IN
         /\ BusStep("RX", "DATA", cr, Uninit, a, res)
         /\ CASE res = "timeout" -> fw' = fw /\ buf' = buf /\ FwReturn(26)
              [] res = "bad" -> fw' = [fw EXCEPT !.twst = twst] /\ buf' = buf /\ FwReturn(twst)
              [] OTHER -> /\ fw' = [fw EXCEPT !.twst = twst, !.i = U8(@ + 1)]
                          /\ buf' = [buf EXCEPT ![fw.i + 1] = TwdrAfter("RX", Uninit, a)]
                          /\ UNCHANGED <<ctl, fwret, xret, ret>>
    /\ UNCHANGED <<call, prog, xfer, out, b, msec, garbage, hist>>

ReadBuf_Stop ==
    /\ pc = "rb_data"
    /\ ~(fw.i < fw.num)
    /\ \E a \in Answers("STOP", CR_STOP, Uninit) : Fastwire_stop(a)
    /\ FwReturn(0)
    /\ UNCHANGED <<call, prog, xfer, fw, buf, out, b, msec, garbage, hist>>

(***************************************************************************)
(* Fastwire_writeBuf                                                       *)
(***************************************************************************)
WriteBuf_Enter(device, address, data, num) ==
    /\ fw' = [NoFw EXCEPT !.fn = "Fastwire_writeBuf", !.device = device,
                          !.address = address, !.data = data, !.num = num,
                          !.retry = RetryBudget]
    /\ pc' = "wb_start"

WriteBuf_Start ==
    /\ pc = "wb_start"
    /\ \E a \in Answers("START", CR_START, Uninit) :
         LET res == StartRes(a) IN
         /\ BusStep("START", "START", CR_START, Uninit, a, res)
         /\ fw' = [fw EXCEPT !.twst = IF res = "timeout" THEN @ ELSE Twst(a.s)]
         /\ CASE res = "timeout" -> FwReturn(1)
              [] res = "bad" -> FwReturn(2)
              [] OTHER -> pc' = "wb_addr" /\ UNCHANGED <<stack, fwret, xret, ret>>
    /\ UNCHANGED <<call, prog, xfer, buf, out, b, msec, garbage, hist>>

WriteBuf_Addr ==
    /\ pc = "wb_addr"
    /\ LET dr == BitAnd(fw.device, 254) IN
       \E a \in Answers("TX", CR_GO, dr) :
         LET res == AddrRes(a, TW_MT_SLA_ACK, TW_MT_SLA_NACK)
             twst == Twst(a.s) IN
         /\ BusStep("TX", "ADDR", CR_GO, dr, a, res)
         /\ IF res = "timeout"
            THEN fw' = fw /\ FwReturn(3)
            ELSE /\ fw' = [fw EXCEPT !.twst = twst,
                                     !.retry = RetryAfter(twst, @, TW_MT_SLA_NACK)]
                 /\ IF RetryAgain(twst, fw.retry, TW_MT_SLA_NACK)
                    THEN pc' = "wb_start" /\ UNCHANGED <<stack, fwret, xret, ret>>
                    ELSE IF twst # TW_MT_SLA_ACK THEN FwReturn(4)
                    ELSE pc' = "wb_reg" /\ UNCHANGED <<stack, fwret, xret, ret>>
    /\ UNCHANGED <<call, prog, xfer, buf, out, b, msec, garbage, hist>>

WriteBuf_Reg ==
    /\ pc = "wb_reg"
    /\ \E a \in Answers("TX", CR_GO, fw.address) :
         LET res == WriteRes(a) IN
         /\ BusStep("TX", "REG", CR_GO, fw.address, a, res)
         /\ CASE res = "timeout" -> fw' = fw /\ FwReturn(5)
              [] res = "nack" -> fw' = [fw EXCEPT !.twst = Twst(a.s)] /\ FwReturn(6)
              [] OTHER -> /\ fw' = [fw EXCEPT !.twst = Twst(a.s), !.i = 0]
                          /\ pc' = "wb_data"
                          /\ UNCHANGED <<stack, fwret, xret, ret>>
    /\ UNCHANGED <<call, prog, xfer, buf, out, b, msec, garbage, hist>>

WriteBuf_Data ==
    /\ pc = "wb_data"
    /\ fw.i < fw.num
    /\ LET dr == fw.data[fw.i + 1] IN
       \E a \in Answers("TX", CR_GO, dr) :
         LET res == WriteRes(a) IN
         /\ BusStep("TX", "DATA", CR_GO, dr, a, res)
         /\ CASE res = "timeout" -> fw' = fw /\ FwReturn(7)
              [] res = "nack" -> fw' = [fw EXCEPT !.twst = Twst(a.s)] /\ FwReturn(8)
              [] OTHER -> /\ fw' = [fw EXCEPT !.twst = Twst(a.s), !.i = U8(@ + 1)]
                          /\ UNCHANGED <<ctl, fwret, xret, ret>>
    /\ UNCHANGED <<call, prog, xfer, buf, out, b, msec, garbage, hist>>

\* the function returns 0 after the last byte; it issues no STOP
WriteBuf_Exit ==
    /\ pc = "wb_data"
    /\ ~(fw.i < fw.num)
    /\ FwReturn(0)
    /\ UNCHANGED <<call, prog, xfer, fw, buf, out, b, wire, twdr, env, msec, faults,
                   garbage, okWaits, wait, hist>>

(***************************************************************************)
(* I2Cdev_readBytes                                                        *)
(***************************************************************************)
\* what the millisecond counter may have advanced by while a call ran
ElapsedChoices == {W32(0), W32(I2CDEV_DEFAULT_READ_TIMEOUT)}

\* variant: the status of Fastwire_readBuf is not looked at
CountOf_Blind(status, length) == I8(length)

\* int8_t count after the status test: length on success, -1 on error
CountOf(status, length) == IF status = 0 THEN I8(length) ELSE -1

\* timeout > 0 && millis() - t1 >= timeout && count < length
TimedOut(timeout, now, t1, count, length) ==
    timeout > 0 /\ Ge32(Sub32(now, t1), timeout) /\ count < length

\* variant: a negative count is returned as 0
CountResult_Clamped(count) == IF count < 0 THEN 0 ELSE count

\* the uint8_t the function returns for int8_t count
CountResult(count) == U8(count + 256)

ReadBytes_Result(status, length, timeout, now, t1) ==
    LET count == CountOf(status, length) IN
    CountResult(IF TimedOut(timeout, now, t1, count, length) THEN -1 ELSE count)

ReadBytes_Call ==
    /\ pc = "I2Cdev_readBytes"
    /\ xfer' = [xfer EXCEPT !.count = 0, !.t1 = msec]
    /\ ReadBuf_Enter(U8(Shl(xfer.devAddr, 1)), xfer.regAddr, xfer.length)
    /\ stack' = <<"rB_exit">> \o stack
    /\ UNCHANGED <<call, prog, fwret, xret, ret, buf, out, b, wire, twdr, env, msec,
                   faults, garbage, okWaits, wait, hist>>

ReadBytes_Exit ==
    /\ pc = "rB_exit"
    /\ hist' = [hist EXCEPT !.rd = fwret]
    /\ \E el \in ElapsedChoices :
         /\ msec' = Add32(msec, el)
         /\ xfer' = [xfer EXCEPT !.status = fwret,
                                 !.count = CountOf(fwret, xfer.length)]
         /\ XReturn(ReadBytes_Result(fwret, xfer.length, xfer.timeout, Add32(msec, el), xfer.t1))
    /\ UNCHANGED <<call, prog, fw, buf, out, b, wire, twdr, env, faults, garbage,
                   okWaits, wait>>

(***************************************************************************)
(* I2Cdev_readWords                                                        *)
(***************************************************************************)
\* intermediate[k] of uint16_t intermediate[length], laid over the bytes of buf
\* (the AVR stores a uint16_t low byte first)
Intermediate(bytes, length, k) ==
    IF k < length
    THEN Val(bytes[2 * k + 1]) + 256 * Val(bytes[2 * k + 2])
    ELSE GarbageWord

\* data[i] = (intermediate[2*i] << 8) | intermediate[2*i + 1]
ReadWords_Word(bytes, length, i) ==
    BitOr(U16(Shl(Intermediate(bytes, length, 2 * i), 8)),
          Intermediate(bytes, length, 2 * i + 1))

\* the byte count passed to Fastwire_readBuf: (uint8_t)(length * 2)
ReadWords_Num(length) == U8(length * 2)

ReadWords_Call ==
    /\ pc = "I2Cdev_readWords"
    /\ xfer' = [xfer EXCEPT !.count = 0, !.t1 = msec]
    /\ buf' = [k \in 1 .. 2 * xfer.length |-> Uninit]
    /\ ReadBuf_Enter(U8(Shl(xfer.devAddr, 1)), xfer.regAddr, ReadWords_Num(xfer.length))
    /\ stack' = <<"rW_exit">> \o stack
    /\ UNCHANGED <<call, prog, fwret, xret, ret, out, b, wire, twdr, env, msec,
                   faults, garbage, okWaits, wait, hist>>

ReadWords_Exit ==
    /\ pc = "rW_exit"
    /\ out' = IF fwret = 0
              THEN [i \in 1 .. xfer.length |-> ReadWords_Word(buf, xfer.length, i - 1)]
              ELSE out
    /\ hist' = [hist EXCEPT !.rd = fwret]
    /\ \E el \in ElapsedChoices :
         /\ msec' = Add32(msec, el)
         /\ xfer' = [xfer EXCEPT !.status = fwret,
                                 !.count = CountOf(fwret, xfer.length)]
         /\ XReturn(ReadBytes_Result(fwret, xfer.length, xfer.timeout, Add32(msec, el), xfer.t1))
    /\ UNCHANGED <<call, prog, fw, buf, b, wire, twdr, env, faults, garbage,
                   okWaits, wait>>

(***************************************************************************)
(* Bit-field functions: readBits, writeBits, writeBitsW                    *)
(***************************************************************************)
\* the frame of a transfer function called with these arguments
XferOf(fn, devAddr, regAddr, length, data, timeout) ==
    [NoXfer EXCEPT !.fn = fn, !.devAddr = devAddr, !.regAddr = regAddr,
                   !.length = length, !.data = data, !.timeout = timeout]

\* mask = ((1 << length) - 1) << (bitStart - length + 1), as uint8_t / uint16_t
Mask8(bitStart, length) == U8(Shl(Shl(1, length) - 1, bitStart - length + 1))
Mask16(bitStart, length) == U16(Shl(Shl(1, length) - 1, bitStart - length + 1))

\* b &= mask; b >>= (bitStart - length + 1)
ReadBits_Field(v, bitStart, length) ==
    Shr(BitAnd(v, Mask8(bitStart, length)), bitStart - length + 1)

\* variant: the field is not cleared before the new bits are or-ed in
WriteBits_Merge_NoClear(v, bitStart, length, data) ==
    BitOr(v, BitAnd(U8(Shl(data, bitStart - length + 1)), Mask8(bitStart, length)))

\* data <<= shift; data &= mask; b &= ~mask; b |= data
WriteBits_Merge(v, bitStart, length, data) ==
    LET mask == Mask8(bitStart, length)
        d == BitAnd(U8(Shl(data, bitStart - length + 1)), mask)
    IN  BitOr(BitAnd(v, 255 - mask), d)

WriteBitsW_Merge(w, bitStart, length, data) ==
    LET mask == Mask16(bitStart, length)
        d == BitAnd(U16(Shl(data, bitStart - length + 1)), mask)
    IN  BitOr(BitAnd(w, 65535 - mask), d)

\* I2Cdev_readByte(devAddr, regAddr, data, timeout): readBytes of length 1
ReadByte_Call ==
    /\ pc = "I2Cdev_readByte"
    /\ xfer' = XferOf("I2Cdev_readBytes", call.devAddr, call.regAddr, 1, <<>>, call.timeout)
    /\ pc' = "I2Cdev_readBytes"
    /\ UNCHANGED <<stack, call, prog, fw, fwret, xret, ret, buf, out, b, wire, twdr, env,
                   msec, faults, garbage, okWaits, wait, hist>>

\* I2Cdev_writeByte(devAddr, regAddr, data): writeBytes of length 1
WriteByte_Call ==
    /\ pc = "I2Cdev_writeByte"
    /\ xfer' = XferOf("I2Cdev_writeBytes", call.devAddr, call.regAddr, 1, <<call.value>>, 0)
    /\ pc' = "I2Cdev_writeBytes"
    /\ UNCHANGED <<stack, call, prog, fw, fwret, xret, ret, buf, out, b, wire, twdr, env,
                   msec, faults, garbage, okWaits, wait, hist>>

ReadBits_Call ==
    /\ pc = "I2Cdev_readBits"
    /\ buf' = <<Uninit>>
    /\ xfer' = XferOf("I2Cdev_readBytes", call.devAddr, call.regAddr, 1, <<>>, call.timeout)
    /\ pc' = "I2Cdev_readBytes"
    /\ stack' = <<"rBits_ret">> \o stack
    /\ UNCHANGED <<call, prog, fw, fwret, xret, ret, out, b, wire, twdr, env, msec,
                   faults, garbage, okWaits, wait, hist>>

ReadBits_Ret ==
    /\ pc = "rBits_ret"
    /\ IF xret # 0
       THEN /\ b' = ReadBits_Field(Val(buf[1]), call.bit, call.length)
            /\ out' = <<ReadBits_Field(Val(buf[1]), call.bit, call.length)>>
       ELSE UNCHANGED <<b, out>>
    /\ XReturn(xret)
    /\ UNCHANGED <<call, prog, xfer, fw, buf, wire, twdr, env, msec, faults, garbage,
                   okWaits, wait, hist>>

\* w &= mask; w >>= (bitStart - length + 1)
ReadBitsW_Field(w, bitStart, length) ==
    Shr(BitAnd(w, Mask16(bitStart, length)), bitStart - length + 1)

\* I2Cdev_readWord(devAddr, regAddr, &w, timeout): out is w while the read runs
ReadBitsW_Call ==
    /\ pc = "I2Cdev_readBitsW"
    /\ out' = <<Uninit>>
    /\ xfer' = XferOf("I2Cdev_readWords", call.devAddr, call.regAddr, 1, <<>>, call.timeout)
    /\ pc' = "I2Cdev_readWords"
    /\ stack' = <<"rBitsW_ret">> \o stack
    /\ UNCHANGED <<call, prog, fw, fwret, xret, ret, buf, b, wire, twdr, env, msec,
                   faults, garbage, okWaits, wait, hist>>

\* after the read; from here on out is the caller's *data
ReadBitsW_Ret ==
    /\ pc = "rBitsW_ret"
    /\ LET w == IF out[1] = Uninit THEN GarbageWord ELSE out[1] IN
       IF xret # 0
       THEN /\ b' = ReadBitsW_Field(w, call.bit, call.length)
            /\ out' = <<ReadBitsW_Field(w, call.bit, call.length)>>
       ELSE /\ b' = b
            /\ out' = <<Uninit>>
    /\ XReturn(xret)
    /\ UNCHANGED <<call, prog, xfer, fw, buf, wire, twdr, env, msec, faults, garbage,
                   okWaits, wait, hist>>

WriteBits_Call ==
    /\ pc = "I2Cdev_writeBits"
    /\ buf' = <<Uninit>>
    /\ xfer' = XferOf("I2Cdev_readBytes", call.devAddr, call.regAddr, 1, <<>>,
                      I2CDEV_DEFAULT_READ_TIMEOUT)
    /\ pc' = "I2Cdev_readBytes"
    /\ stack' = <<"wBits_after">> \o stack
    /\ UNCHANGED <<call, prog, fw, fwret, xret, ret, out, b, wire, twdr, env, msec,
                   faults, garbage, okWaits, wait, hist>>

\* if (readByte(devAddr, regAddr, &b) != 0)
WriteBits_ReadOk(count) == count # 0

WriteBits_AfterRead ==
    /\ pc = "wBits_after"
    /\ IF WriteBits_ReadOk(xret)
       THEN LET nb == WriteBits_Merge(Val(buf[1]), call.bit, call.length, call.value) IN
            /\ b' = nb
            /\ xfer' = XferOf("I2Cdev_writeBytes", call.devAddr, call.regAddr, 1, <<nb>>, 0)
            /\ pc' = "I2Cdev_writeBytes"
            /\ UNCHANGED <<stack, fwret, xret, ret>>
       ELSE /\ XReturn(0)
            /\ UNCHANGED <<b, xfer>>
    /\ UNCHANGED <<call, prog, fw, buf, out, wire, twdr, env, msec, faults, garbage,
                   okWaits, wait, hist>>

WriteBitsW_Call ==
    /\ pc = "I2Cdev_writeBitsW"
    /\ out' = <<Uninit>>
    /\ xfer' = XferOf("I2Cdev_readWords", call.devAddr, call.regAddr, 1, <<>>,
                      I2CDEV_DEFAULT_READ_TIMEOUT)
    /\ pc' = "I2Cdev_readWords"
    /\ stack' = <<"wBitsW_after">> \o stack
    /\ UNCHANGED <<call, prog, fw, fwret, xret, ret, buf, b, wire, twdr, env, msec,
                   faults, garbage, okWaits, wait, hist>>

WriteBitsW_AfterRead ==
    /\ pc = "wBitsW_after"
    /\ IF WriteBits_ReadOk(xret)
       THEN LET w == IF out[1] = Uninit THEN GarbageWord ELSE out[1]
                nw == WriteBitsW_Merge(w, call.bit, call.length, call.value) IN
            /\ b' = nw
            /\ xfer' = XferOf("I2Cdev_writeWords", call.devAddr, call.regAddr, 1, <<nw>>, 0)
            /\ pc' = "I2Cdev_writeWords"
            /\ UNCHANGED <<stack, fwret, xret, ret>>
       ELSE /\ XReturn(0)
            /\ UNCHANGED <<b, xfer>>
    /\ UNCHANGED <<call, prog, fw, buf, out, wire, twdr, env, msec, faults, garbage,
                   okWaits, wait, hist>>

\* (data != 0) ? (b | (1 << bitNum)) : (b & ~(1 << bitNum)), stored to a uint8_t
WriteBit_Merge(v, bitNum, data) ==
    IF data # 0 THEN BitOr(v, U8(Shl(1, bitNum)))
    ELSE BitAnd(v, 255 - U8(Shl(1, bitNum)))

\* the same on a uint16_t
WriteBitW_Merge(w, bitNum, data) ==
    IF data # 0 THEN BitOr(w, U16(Shl(1, bitNum)))
    ELSE BitAnd(w, 65535 - U16(Shl(1, bitNum)))

\* uint8_t b; I2Cdev_readByte(devAddr, regAddr, &b): the result is not looked at
WriteBit_Call ==
    /\ pc = "I2Cdev_writeBit"
    /\ buf' = <<Uninit>>
    /\ xfer' = XferOf("I2Cdev_readBytes", call.devAddr, call.regAddr, 1, <<>>,
                      I2CDEV_DEFAULT_READ_TIMEOUT)
    /\ pc' = "I2Cdev_readBytes"
    /\ stack' = <<"wBit_after">> \o stack
    /\ UNCHANGED <<call, prog, fw, fwret, xret, ret, out, b, wire, twdr, env, msec,
                   faults, garbage, okWaits, wait, hist>>

WriteBit_AfterRead ==
    /\ pc = "wBit_after"
    /\ LET nb == WriteBit_Merge(Val(buf[1]), call.bit, call.value) IN
       /\ b' = nb
       /\ xfer' = XferOf("I2Cdev_writeBytes", call.devAddr, call.regAddr, 1, <<nb>>, 0)
    /\ pc' = "I2Cdev_writeBytes"
    /\ UNCHANGED <<stack, call, prog, fw, fwret, xret, ret, buf, out, wire, twdr, env,
                   msec, faults, garbage, okWaits, wait, hist>>

\* uint16_t w; I2Cdev_readWord(devAddr, regAddr, &w): the result is not looked at
WriteBitW_Call ==
    /\ pc = "I2Cdev_writeBitW"
    /\ out' = <<Uninit>>
    /\ xfer' = XferOf("I2Cdev_readWords", call.devAddr, call.regAddr, 1, <<>>,
                      I2CDEV_DEFAULT_READ_TIMEOUT)
    /\ pc' = "I2Cdev_readWords"
    /\ stack' = <<"wBitW_after">> \o stack
    /\ UNCHANGED <<call, prog, fw, fwret, xret, ret, buf, b, wire, twdr, env, msec,
                   faults, garbage, okWaits, wait, hist>>

WriteBitW_AfterRead ==
    /\ pc = "wBitW_after"
    /\ LET w == IF out[1] = Uninit THEN GarbageWord ELSE out[1]
           nw == WriteBitW_Merge(w, call.bit, call.value) IN
       /\ b' = nw
       /\ xfer' = XferOf("I2Cdev_writeWords", call.devAddr, call.regAddr, 1, <<nw>>, 0)
    /\ pc' = "I2Cdev_writeWords"
    /\ UNCHANGED <<stack, call, prog, fw, fwret, xret, ret, buf, out, wire, twdr, env,
                   msec, faults, garbage, okWaits, wait, hist>>

(***************************************************************************)
(* The client: which public calls are made, with which arguments           *)
(***************************************************************************)
DevAddrs == {104}
RegAddrs == {0}
Timeouts == {0, I2CDEV_DEFAULT_READ_TIMEOUT}
BigLens == {128, 255}
GarbageBytes == {0, 165}
RegValues == {0, 18, 85, 105, 128, 175, 255}

\* initial content of the slave's register file: 0x12, 0x34, 0x56, 0x78, ...
DevByte(k) == (18 + 34 * k) % 256
\* what the client passes to writeBytes and writeWords
DataBytes(n) == [k \in 1 .. n |-> 160 + k]
DataWords(n) == [k \in 1 .. n |-> (4660 + 4369 * (k - 1)) % 65536]

MkCall(op, dev, bit, length, value, data, timeout) ==
    [op |-> op, devAddr |-> dev[1], regAddr |-> dev[2], bit |-> bit, length |-> length,
     value |-> value, data |-> data, timeout |-> timeout]

\* (bitStart, length) with 0 <= length <= bitStart + 1 <= 8
Fields8 == {f \in (0 .. 7) \X (0 .. 8) : f[2] <= f[1] + 1}

Calls ==
    {MkCall("I2Cdev_readBytes", d, 0, n, 0, <<>>, t) :
        d \in DevAddrs \X RegAddrs, n \in 0 .. MaxLen, t \in Timeouts}
    \cup {MkCall("I2Cdev_readBytes", d, 0, n, 0, <<>>, I2CDEV_DEFAULT_READ_TIMEOUT) :
        d \in DevAddrs \X RegAddrs, n \in BigLens}
    \cup {MkCall("I2Cdev_readWords", d, 0, n, 0, <<>>, t) :
        d \in DevAddrs \X RegAddrs, n \in 0 .. MaxLen, t \in Timeouts}
    \cup {MkCall("I2Cdev_readWords", d, 0, n, 0, <<>>, I2CDEV_DEFAULT_READ_TIMEOUT) :
        d \in DevAddrs \X RegAddrs, n \in BigLens}
    \cup {MkCall("I2Cdev_writeBytes", d, 0, n, 0, DataBytes(n), 0) :
        d \in DevAddrs \X RegAddrs, n \in 0 .. MaxLen}
    \cup {MkCall("I2Cdev_writeWords", d, 0, n, 0, DataWords(n), 0) :
        d \in DevAddrs \X RegAddrs, n \in 0 .. MaxLen}
    \cup {MkCall("I2Cdev_writeWords", d, 0, n, 0, DataWords(MaxLen), 0) :
        d \in DevAddrs \X RegAddrs, n \in BigLens}
    \cup {MkCall("I2Cdev_readBits", d, f[1], f[2], 0, <<>>, t) :
        d \in DevAddrs \X RegAddrs, f \in {<<4, 3>>, <<7, 8>>, <<3, 0>>}, t \in Timeouts}
    \cup {MkCall("I2Cdev_readBitsW", d, 12, 3, 0, <<>>, 0) : d \in DevAddrs \X RegAddrs}
    \cup {MkCall("I2Cdev_writeBits", d, 4, 3, 2, <<>>, 0) : d \in DevAddrs \X RegAddrs}
    \cup {MkCall("I2Cdev_writeBitsW", d, 12, 3, 2, <<>>, 0) : d \in DevAddrs \X RegAddrs}
    \cup {MkCall("I2Cdev_writeBit", d, n, 1, v, <<>>, 0) :
        d \in DevAddrs \X RegAddrs, n \in {1, 7}, v \in {0, 2}}
    \cup {MkCall("I2Cdev_writeBitW", d, n, 1, v, <<>>, 0) :
        d \in DevAddrs \X RegAddrs, n \in {4, 12}, v \in {0, 1}}
    \cup {MkCall("Fastwire_beginTransmission", d, 0, 0, 0, <<>>, 0) : d \in DevAddrs \X RegAddrs}
    \cup {MkCall("Fastwire_readBuf", d, 0, n, 0, <<>>, 0) : d \in DevAddrs \X RegAddrs, n \in 0 .. MaxLen}
    \cup {MkCall("Fastwire_writeBuf", d, 0, n, 0, DataBytes(n), 0) :
        d \in DevAddrs \X RegAddrs, n \in 0 .. MaxLen}

\* writeBits of d < 2^length, then readBits of the same field
RoundTrips ==
    {<<MkCall("I2Cdev_writeBits", d, f[1], f[2], v, <<>>, 0),
       MkCall("I2Cdev_readBits", d, f[1], f[2], 0, <<>>, I2CDEV_DEFAULT_READ_TIMEOUT)>> :
        d \in DevAddrs \X RegAddrs,
        f \in {g \in Fields8 : g[2] >= 1},
        v \in 0 .. 255}
    \cup
    \* writeByte of v, then readByte of the same register
    {<<MkCall("I2Cdev_writeByte", d, 0, 1, v, <<>>, 0),
       MkCall("I2Cdev_readByte", d, 0, 1, 0, <<>>, I2CDEV_DEFAULT_READ_TIMEOUT)>> :
        d \in DevAddrs \X RegAddrs,
        v \in 0 .. 255}

TransferOps == {"I2Cdev_readBytes", "I2Cdev_readWords", "I2Cdev_writeBytes",
                "I2Cdev_writeWords"}
ClockOps == {"I2Cdev_readBytes", "I2Cdev_readWords"}
GarbageOps == {"I2Cdev_readWords", "I2Cdev_writeWords", "I2Cdev_readBits",
               "I2Cdev_readBitsW", "I2Cdev_writeBits", "I2Cdev_writeBitsW",
               "I2Cdev_writeBit", "I2Cdev_writeBitW"}

\* calls of two transactions each, made on a peripheral that misbehaves BigFaults times
SingleBitOps == {"I2Cdev_writeBit", "I2Cdev_writeBitW"}

\* the client enters public call c; rest are the calls it makes afterwards
Begin(c, rest) ==
    /\ call' = c
    /\ prog' = rest
    /\ stack' = <<"done">>
    /\ okWaits' = 0
    /\ wait' = NoWait
    /\ wire' = <<>>
    /\ b' = Uninit
    /\ fwret' = 0 /\ xret' = 0 /\ ret' = 0
    /\ buf' = IF c.op \in {"I2Cdev_readBytes", "Fastwire_readBuf"}
              THEN [k \in 1 .. c.length |-> Uninit]
              ELSE IF c.op = "I2Cdev_readByte" THEN <<Uninit>> ELSE <<>>
    /\ out' = IF c.op = "I2Cdev_readWords" THEN [k \in 1 .. c.length |-> Uninit]
              ELSE IF c.op \in {"I2Cdev_readBits"} THEN <<Uninit>> ELSE <<>>
    /\ CASE c.op = "Fastwire_beginTransmission" ->
                BeginTransmission_Enter(c.devAddr) /\ xfer' = NoXfer
         [] c.op = "Fastwire_readBuf" ->
                ReadBuf_Enter(U8(Shl(c.devAddr, 1)), c.regAddr, c.length) /\ xfer' = NoXfer
         [] c.op = "Fastwire_writeBuf" ->
                /\ WriteBuf_Enter(U8(Shl(c.devAddr, 1)), c.regAddr, c.data, c.length)
                /\ xfer' = NoXfer
         [] c.op \in TransferOps ->
                /\ xfer' = XferOf(c.op, c.devAddr, c.regAddr, c.length, c.data, c.timeout)
                /\ pc' = c.op
                /\ fw' = NoFw
         [] OTHER -> pc' = c.op /\ xfer' = NoXfer /\ fw' = NoFw
    /\ UNCHANGED <<twdr, env>>

Start ==
    /\ pc = "idle"
    /\ \E c \in Calls :
         /\ Begin(c, <<>>)
         /\ faults' = IF c.length > MaxLen
                      THEN (IF c.op \in ClockOps THEN Min(faults, BigFaults) ELSE 0)
                      ELSE IF c.op \in SingleBitOps THEN Min(faults, BigFaults)
                      ELSE faults
         /\ \E adv \in (IF c.op \in ClockOps /\ c.length <= MaxLen
                        THEN {W32(0), Max32} ELSE {W32(0)}) :
              msec' = Add32(msec, adv)
         /\ garbage' \in (IF c.op \in GarbageOps THEN GarbageBytes ELSE {0})
         /\ hist' = hist

StartRoundTrip ==
    /\ pc = "idle"
    /\ \E p \in RoundTrips :
         /\ p[1].op = "I2Cdev_writeBits" => p[1].value < Pow2(p[1].length)
         /\ Begin(p[1], Tail(p))
    /\ UNCHANGED <<msec, garbage, hist, faults>>

\* the public call has returned and the client makes its next call
NextCall ==
    /\ pc = "done"
    /\ prog # <<>>
    /\ Begin(Head(prog), Tail(prog))
    /\ hist' = [op |-> call.op, bit |-> call.bit, length |-> call.length,
                value |-> call.value, ret |-> ret, mem |-> hist.mem, rd |-> Uninit]
    /\ UNCHANGED <<msec, garbage, faults>>

(***************************************************************************)
(* Specifications                                                          *)
(***************************************************************************)
InitCommon ==
    /\ pc = "idle"
    /\ stack = <<>>
    /\ call = NoCall
    /\ prog = <<>>
    /\ xfer = NoXfer
    /\ fw = NoFw
    /\ fwret = 0 /\ xret = 0 /\ ret = 0
    /\ buf = <<>>
    /\ out = <<>>
    /\ b = Uninit
    /\ wire = <<>>
    /\ twdr = 0
    /\ bus = "idle"
    /\ ptr = 0
    /\ msec = W32(0)
    /\ garbage = 0
    /\ okWaits = 0
    /\ wait = NoWait

\* a peripheral that may misbehave, a slave with a fixed register file
Init ==
    /\ InitCommon
    /\ mem = [k \in 0 .. DevSize - 1 |-> DevByte(k)]
    /\ faults = MaxFaults
    /\ hist = [NoHist EXCEPT !.mem = mem]

\* a fault-free bus, any of RegValues in the register the client works on
InitClean ==
    /\ InitCommon
    /\ \E r \in RegValues :
         mem = [k \in 0 .. DevSize - 1 |-> IF k \in RegAddrs THEN r ELSE DevByte(k)]
    /\ faults = 0
    /\ hist = [NoHist EXCEPT !.mem = mem]

\* a peripheral that may misbehave BigFaults times
InitLive ==
    /\ InitCommon
    /\ mem = [k \in 0 .. DevSize - 1 |-> DevByte(k)]
    /\ faults = BigFaults
    /\ hist = [NoHist EXCEPT !.mem = mem]

Fastwire ==
    \/ BeginTransmission_Start
    \/ BeginTransmission_Addr
    \/ ReadBuf_Start1
    \/ ReadBuf_Addr1
    \/ ReadBuf_Reg
    \/ ReadBuf_Start2
    \/ ReadBuf_Addr2
    \/ ReadBuf_Data
    \/ ReadBuf_Stop

Next ==
    \/ Start
    \/ Fastwire
    \/ WriteBuf_Start
    \/ WriteBuf_Addr
    \/ WriteBuf_Reg
    \/ WriteBuf_Data
    \/ WriteBuf_Exit
    \/ ReadBytes_Call
    \/ ReadBytes_Exit
    \/ ReadWords_Call
    \/ ReadWords_Exit
    \/ WriteBytes_Begin
    \/ WriteBytes_Reg
    \/ WriteBytes_Data
    \/ WriteBytes_Stop
    \/ WriteWords_Begin
    \/ WriteWords_Reg
    \/ WriteWords_MSB
    \/ WriteWords_LSB
    \/ WriteWords_Stop
    \/ ReadBits_Call
    \/ ReadBits_Ret
    \/ ReadBitsW_Call
    \/ ReadBitsW_Ret
    \/ WriteBits_Call
    \/ WriteBits_AfterRead
    \/ WriteBitsW_Call
    \/ WriteBitsW_AfterRead
    \/ WriteBit_Call
    \/ WriteBit_AfterRead
    \/ WriteBitW_Call
    \/ WriteBitW_AfterRead

NextClean ==
    \/ StartRoundTrip
    \/ NextCall
    \/ Fastwire
    \/ ReadBytes_Call
    \/ ReadBytes_Exit
    \/ WriteBytes_Begin
    \/ WriteBytes_Reg
    \/ WriteBytes_Data
    \/ WriteBytes_Stop
    \/ ReadByte_Call
    \/ WriteByte_Call
    \/ ReadBits_Call
    \/ ReadBits_Ret
    \/ WriteBits_Call
    \/ WriteBits_AfterRead

Spec == Init /\ [][Next]_vars

SpecClean == InitClean /\ [][NextClean]_vars

\* the program runs on: a call that can take a step takes it
SpecLive == InitLive /\ [][Next]_vars /\ WF_vars(Next)

(***************************************************************************)
(* Properties                                                              *)
(***************************************************************************)
\* the public call has returned
Done == pc = "done"

\* the bytes the master clocked in during the call, in bus order
Received ==
    LET rx == SelectSeq(wire, LAMBDA e : EvRX(e) # Uninit)
    IN  [k \in 1 .. Len(rx) |-> EvRX(rx[k])]

\* the bytes the master put on the bus in the steps labelled by labels, in bus order
Sent(labels) ==
    LET tx == SelectSeq(wire, LAMBDA e : EvOp(e) \in labels)
    IN  [k \in 1 .. Len(tx) |-> EvDR(tx[k])]

\* step p of the call is a byte that failed for good: a register-address or data
\* byte that was not acknowledged, or the last attempt of an address phase
FailedByte(p) ==
    /\ EvRes(wire[p]) # "ok"
    /\ \/ EvOp(wire[p]) \in {"REG", "DATA", "MSB", "LSB"}
       \/ /\ EvOp(wire[p]) \in {"START", "ADDR"}
          /\ p < Len(wire)
          /\ EvOp(wire[p + 1]) # "START"

\* every bus step of the call completed with the status the program accepts
AllAcked == \A p \in 1 .. Len(wire) : EvRes(wire[p]) = "ok"

\* C1: a successful I2Cdev_readWords has clocked in exactly 2 * length bytes and
\* data[i] is 256 * (byte 2i) + (byte 2i+1), the most significant byte first.
C1_ReadWordsBigEndian ==
    (Done /\ call.op = "I2Cdev_readWords" /\ call.length \in 1 .. MaxLen
          /\ AllAcked /\ fwret = 0 /\ ret = call.length)
    => /\ Len(Received) = 2 * call.length
       /\ \A i \in 0 .. call.length - 1 :
            out[i + 1] = 256 * Received[2 * i + 1] + Received[2 * i + 2]

\* C2: I2Cdev_writeBytes returns false whenever the address phase, the register
\* address byte or a data byte was not acknowledged or timed out.
C2_WriteBytesReportsFailure ==
    (Done /\ call.op = "I2Cdev_writeBytes" /\ \E p \in 1 .. Len(wire) : FailedByte(p))
    => ret = 0

\* C3: when the initial register read of I2Cdev_writeBits / I2Cdev_writeBitsW
\* fails, no write transaction is started and the call returns false.
C3_NoWriteAfterFailedRead ==
    (call.op \in {"I2Cdev_writeBits", "I2Cdev_writeBitsW"} /\ hist.rd \notin {Uninit, 0})
    => /\ xfer.fn \notin {"I2Cdev_writeBytes", "I2Cdev_writeWords"}
       /\ Done => ret = 0

\* C4: on a bus that acknowledges everything I2Cdev_writeWords puts on the bus
\* the high byte then the low byte of data[0], data[1], ..., data[length-1], in
\* that order and nothing else as data.
C4_WriteWordsSendsEveryWord ==
    (Done /\ call.op = "I2Cdev_writeWords" /\ call.length \in 1 .. MaxLen
          /\ AllAcked)
    => Sent({"MSB", "LSB"}) =
         [k \in 1 .. 2 * call.length |->
            IF k % 2 = 1 THEN Shr(call.data[(k + 1) \div 2], 8)
                         ELSE call.data[k \div 2] % 256]

\* wire[p], wire[p + 2], ..: n address bytes in a row that were answered by NACK,
\* each retry after a new START
NacksInARow(p, n) ==
    /\ p + 2 * (n - 1) <= Len(wire)
    /\ \A j \in 0 .. n - 1 :
         /\ EvOp(wire[p + 2 * j]) = "ADDR"
         /\ EvRes(wire[p + 2 * j]) = "nack"
    /\ \A j \in 0 .. n - 2 : EvOp(wire[p + 2 * j + 1]) = "START"

\* the codes by which Fastwire functions report an address NACK
AddressNack == {4, 19, 25}

\* calls in which the address phase belongs to the last Fastwire function called
AddressPhaseOps == {"Fastwire_beginTransmission", "Fastwire_readBuf", "I2Cdev_readBytes",
                    "I2Cdev_readWords", "I2Cdev_readBits"}

\* control is inside Fastwire_beginTransmission or Fastwire_readBuf
FastwirePcs == {"bt_start", "bt_addr", "rb_start1", "rb_addr1", "rb_reg", "rb_start2",
                "rb_addr2", "rb_data"}

\* calls that run one address phase, in Fastwire_beginTransmission, and then write
WriteOps == {"I2Cdev_writeBytes", "I2Cdev_writeWords"}

\* after n address NACKs in a row the Fastwire function has returned the
\* address-NACK failure, and it has put nothing more on the bus
AddressNackFails(n) ==
    \A p \in 1 .. Len(wire) :
        NacksInARow(p, n)
        => LET last == p + 2 * (n - 1) IN
           /\ call.op \in AddressPhaseOps
                => Len(wire) = last /\ fwret \in AddressNack /\ pc \notin FastwirePcs
           /\ call.op \in WriteOps
                => /\ Len(wire) = last => fwret \in AddressNack /\ pc \notin FastwirePcs
                   /\ \A q \in last + 1 .. Len(wire) : EvOp(wire[q]) \notin {"START", "ADDR"}

\* C5 (as stated): an address phase that is answered by NACK twice in a row
\* returns the address-NACK failure and nothing is transmitted after it.
C5_TwoNacksFail == AddressNackFails(RetryBudget)

\* C5 (amended): an address phase that is answered by NACK three times in a row,
\* the first attempt and both retries, returns the address-NACK failure, and the
\* Fastwire function that ran it puts nothing more on the bus.
C5_ThreeNacksFail == AddressNackFails(RetryBudget + 1)

C5_Witness ==
    /\ Done
    /\ call.op = "I2Cdev_readBytes"
    /\ fwret = 25
    /\ \E p \in 1 .. Len(wire) : NacksInARow(p, 3) /\ Len(wire) = p + 4

\* C6: an I2Cdev_readBytes call in which no spin-wait ever saw the interrupt
\* flag returns the failure sentinel and leaves the caller's buffer untouched.
C6_NoFlagNoData ==
    (call.op = "I2Cdev_readBytes" /\ okWaits = 0)
    => /\ \A k \in 1 .. Len(buf) : buf[k] = Uninit
       /\ Done => ret = 255

C6_Witness ==
    /\ Done
    /\ call.op = "I2Cdev_readBytes"
    /\ call.length = MaxLen
    /\ okWaits = 0
    /\ Len(wire) = 1
    /\ EvRes(wire[1]) = "timeout"

\* C7: a successful I2Cdev_readBits with 0 <= length <= bitStart + 1 <= 8 yields
\* bits bitStart .. bitStart-length+1 of the register byte, right-aligned, all
\* higher bits of the result zero.
C7_ReadBitsField ==
    (Done /\ call.op = "I2Cdev_readBits" /\ ret = 1)
    => out[1] = (mem[call.regAddr] \div Pow2(call.bit - call.length + 1))
                  % Pow2(call.length)

\* the field is exact whenever the register byte did arrive
ReadBits_ExactWhenReceived ==
    (Done /\ call.op = "I2Cdev_readBits" /\ ret = 1 /\ Len(Received) = 1)
    => out[1] = (mem[call.regAddr] \div Pow2(call.bit - call.length + 1))
                  % Pow2(call.length)

\* bit k of byte v
Bit(v, k) == (v \div Pow2(k)) % 2

\* C8: on a fault-free bus I2Cdev_writeBits(dev, reg, bitStart, length, d) with
\* d < 2^length followed by I2Cdev_readBits of the same field yields d, and the
\* bits of the register outside the field keep their values.
C8_WriteBitsReadBitsRoundTrip ==
    (Done /\ call.op = "I2Cdev_readBits" /\ hist.op = "I2Cdev_writeBits")
    => /\ hist.ret = 1
       /\ ret = 1
       /\ out[1] = hist.value
       /\ \A k \in 0 .. 7 :
            k \notin (hist.bit - hist.length + 1) .. hist.bit
            => Bit(mem[call.regAddr], k) = Bit(hist.mem[call.regAddr], k)

C8_Witness ==
    /\ Done
    /\ call.op = "I2Cdev_readBits"
    /\ hist.op = "I2Cdev_writeBits"
    /\ hist.bit = 4 /\ hist.length = 3 /\ hist.value = 2
    /\ hist.mem[call.regAddr] = 175
    /\ mem[call.regAddr] = 171
    /\ out[1] = 2

\* C9: I2Cdev_writeWords puts no further data byte on the bus after the first
\* byte that failed (address, register address, high or low byte of a word), and
\* then returns false.
C9_WriteWordsAbortsOnNack ==
    \A p \in 1 .. Len(wire) :
        (call.op = "I2Cdev_writeWords" /\ FailedByte(p))
        => /\ \A q \in p + 1 .. Len(wire) : EvOp(wire[q]) \notin {"MSB", "LSB"}
           /\ Done => ret = 0

\* C10: I2Cdev_readBytes and I2Cdev_readWords return either length or the
\* failure sentinel, and the sentinel whenever Fastwire_readBuf reported a failure.
C10_LengthOrSentinel ==
    (Done /\ call.op \in {"I2Cdev_readBytes", "I2Cdev_readWords"})
    => /\ ret \in {call.length, 255}
       /\ fwret # 0 => ret = 255

C10_Witness ==
    /\ Done
    /\ call.op = "I2Cdev_readBytes"
    /\ call.length = MaxLen
    /\ fwret = 26
    /\ buf[1] # Uninit
    /\ ret = 255

\* C11: every public call returns, whatever its arguments and whatever the
\* hardware does.
C11_Terminates == <>Done

\* C12: when the register read of I2Cdev_readBits / I2Cdev_readBitsW fails, the
\* caller's *data is not written and the read's failure count is returned.
C12_FailedReadLeavesData ==
    (Done /\ call.op \in {"I2Cdev_readBits", "I2Cdev_readBitsW"}
          /\ hist.rd \notin {Uninit, 0})
    => out[1] = Uninit /\ ret = 255

\* C13: on a fault-free bus whose device stores what is written,
\* I2Cdev_writeByte(dev, reg, v) followed by I2Cdev_readByte(dev, reg) both
\* report success and the byte read is v.
C13_WriteByteReadByteRoundTrip ==
    (Done /\ call.op = "I2Cdev_readByte" /\ hist.op = "I2Cdev_writeByte")
    => /\ hist.ret = 1
       /\ ret = 1
       /\ buf = <<hist.value>>

C13_Witness ==
    /\ Done
    /\ call.op = "I2Cdev_readByte"
    /\ hist.op = "I2Cdev_writeByte"
    /\ hist.value = 90
    /\ hist.mem[call.regAddr] = 175
    /\ buf = <<90>>
    /\ ret = 1

\* bytes a read call of this length has to obtain
BytesWanted ==
    IF call.op = "I2Cdev_readWords" THEN 2 * call.length ELSE call.length

\* the clock advanced by at least the timeout between the two millis() calls
Elapsed == Ge32(Sub32(msec, xfer.t1), call.timeout)

\* C14: in I2Cdev_readBytes / I2Cdev_readWords, a timeout > 0 that has elapsed
\* with fewer than length items obtained gives the failure sentinel whatever
\* Fastwire_readBuf reported; with timeout = 0 the clock does not affect the
\* result.
C14_TimeoutOverrides ==
    (Done /\ call.op \in {"I2Cdev_readBytes", "I2Cdev_readWords"})
    => /\ (call.timeout > 0 /\ Elapsed /\ Len(Received) < BytesWanted) => ret = 255
       /\ call.timeout = 0 => ret = CountResult(CountOf(fwret, call.length))

\* the bus steps of the call: what was done and, for a byte sent, the byte
Steps == [p \in 1 .. Len(wire) |-> <<EvOp(wire[p]), EvDR(wire[p])>>]

\* no address byte of the call was answered by NACK, so nothing was retried
NoRetry ==
    \A p \in 1 .. Len(wire) : EvOp(wire[p]) = "ADDR" => EvRes(wire[p]) # "nack"

\* C15: a successful I2Cdev_readBytes does, in this order: START, address byte
\* (devAddr << 1) | 0, regAddr, START, address byte (devAddr << 1) | 1, clocks in
\* exactly length bytes, stored at data[0], data[1], .. in arrival order, STOP.
C15_ReadBytesBusOrder ==
    (Done /\ call.op = "I2Cdev_readBytes" /\ call.length <= MaxLen
          /\ ret = call.length /\ NoRetry)
    => /\ Steps = <<<<"START", Uninit>>, <<"ADDR", 2 * call.devAddr>>,
                    <<"REG", call.regAddr>>, <<"START", Uninit>>,
                    <<"ADDR", 2 * call.devAddr + 1>> >>
                  \o [k \in 1 .. call.length |-> <<"DATA", Uninit>>]
                  \o << <<"STOP", Uninit>> >>
       /\ Len(Received) = call.length
       /\ buf = Received

\* C16: on a bus that acknowledges everything, I2Cdev_writeBytes puts on the wire
\* exactly the address byte (devAddr << 1) | 0, regAddr, data[0], ..,
\* data[length-1], in this order, then one STOP.
C16_WriteBytesWireOrder ==
    (Done /\ call.op = "I2Cdev_writeBytes" /\ AllAcked)
    => Steps = <<<<"START", Uninit>>, <<"ADDR", 2 * call.devAddr>>,
                 <<"REG", call.regAddr>> >>
               \o [k \in 1 .. call.length |-> <<"DATA", call.data[k]>>]
               \o << <<"STOP", Uninit>> >>

C16_Witness ==
    /\ Done
    /\ call.op = "I2Cdev_writeBytes"
    /\ call.length = MaxLen
    /\ AllAcked
    /\ Sent({"DATA"}) = call.data
    /\ EvOp(wire[Len(wire)]) = "STOP"

\* C17: of the num >= 1 steps in which Fastwire_readBuf clocks in a byte, every
\* one but the last asserts TWEA and the last one does not.
C17_AckAllButLast ==
    (call.op \in {"Fastwire_readBuf", "I2Cdev_readBytes", "I2Cdev_readWords"}
       /\ call.length <= MaxLen)
    => LET rx == SelectSeq(wire, LAMBDA e : EvOp(e) = "DATA") IN
       /\ Len(rx) <= fw.num
       /\ \A k \in 1 .. Len(rx) : ("TWEA" \in EvCR(rx[k])) <=> (k < fw.num)
       /\ (Done /\ fwret = 0 /\ AllAcked) => Len(rx) = fw.num

C17_Witness ==
    /\ Done
    /\ call.op = "Fastwire_readBuf"
    /\ call.length = MaxLen
    /\ fwret = 0
    /\ Len(Received) = MaxLen
    /\ "TWEA" \in EvCR(wire[Len(wire) - 2])
    /\ "TWEA" \notin EvCR(wire[Len(wire) - 1])

\* C18: when a step that clocks in a data byte ends with a status other than
\* DATA_ACK (0x50) or DATA_NACK (0x58), 0x00 and 0x38 included, Fastwire_readBuf
\* returns a nonzero code and I2Cdev_readBytes returns the failure sentinel.
C18_RejectedStatusFails ==
    (Done /\ call.op = "I2Cdev_readBytes" /\ Len(wire) > 0
          /\ EvOp(wire[Len(wire)]) = "DATA" /\ EvRes(wire[Len(wire)]) = "bad")
    => fwret # 0 /\ ret = 255


\* the positions of wire where an address byte of direction rw (0 write, 1 read) went out
AddrSteps(rw) == {p \in 1 .. Len(wire) : EvOp(wire[p]) = "ADDR" /\ EvDR(wire[p]) % 2 = rw}

\* the operations that run each address phase at most once
OnePhaseOps == {"Fastwire_beginTransmission", "Fastwire_writeBuf", "Fastwire_readBuf",
                "I2Cdev_readBytes", "I2Cdev_readWords", "I2Cdev_readBits",
                "I2Cdev_readBitsW", "I2Cdev_writeBytes", "I2Cdev_writeWords"}

\* where the program is while it runs an address phase
AddressPcs == {"bt_start", "bt_addr", "wb_start", "wb_addr", "rb_start1", "rb_addr1",
               "rb_start2", "rb_addr2"}

\* C19: within one address phase (Fastwire_beginTransmission, Fastwire_writeBuf, each
\* of the two phases of Fastwire_readBuf) START + address is attempted at most three
\* times; START is sent again only after an address byte that was NACKed; after a START
\* or an address byte that ended with any other failure no START or address byte
\* follows, and the Fastwire function has returned a failure code (which the write
\* operations overwrite with the result of their next Fastwire call).
C19_AddressPhaseRetries ==
    call.op \in OnePhaseOps =>
      /\ \A rw \in {0, 1} : Cardinality(AddrSteps(rw)) <= RetryBudget + 1
      /\ \A p \in 1 .. Len(wire) :
           /\ (EvOp(wire[p]) = "ADDR" /\ p < Len(wire) /\ EvOp(wire[p + 1]) = "START")
                => EvRes(wire[p]) = "nack"
           /\ (EvOp(wire[p]) \in {"START", "ADDR"} /\ EvRes(wire[p]) \in {"bad", "timeout"})
                => /\ \A q \in p + 1 .. Len(wire) : EvOp(wire[q]) \notin {"START", "ADDR"}
                   /\ pc \notin AddressPcs
                   /\ call.op \notin WriteOps => fwret # 0

C19_Witness ==
    /\ Done /\ call.op = "Fastwire_writeBuf" /\ call.length = MaxLen /\ fwret = 0
    /\ Cardinality(AddrSteps(0)) = RetryBudget + 1
    /\ Sent({"DATA"}) = call.data
    /\ \E p \in AddrSteps(0) :
         /\ EvRes(wire[p]) = "ok"
         /\ \A q \in AddrSteps(0) \ {p} : q < p /\ EvRes(wire[q]) = "nack"


\* C20: the last wait of the call made at most SpinBudget polls of the flag, and it
\* reported success exactly when one of its polls saw the flag set.
C20_WaitIntExact ==
    wait # NoWait => /\ wait.polls <= SpinBudget
                     /\ wait.ok <=> wait.saw

\* the call has asserted the STOP condition as its last bus step
StopAsserted == Len(wire) > 0 /\ EvOp(wire[Len(wire)]) = "STOP"

\* C21: every I2Cdev_readBytes and I2Cdev_writeBytes call, failed or not, has asserted
\* the STOP condition on the bus when it returns.
C21_StopBeforeReturn ==
    (Done /\ call.op \in {"I2Cdev_readBytes", "I2Cdev_writeBytes"} /\ call.length <= MaxLen)
    => StopAsserted

\* C22: every START step of the call writes TWCR with the start and enable bits set
\* and the stop bit clear.
C22_StartWithoutStop ==
    \A p \in 1 .. Len(wire) :
        EvOp(wire[p]) = "START"
        => /\ {"TWSTA", "TWEN"} \subseteq EvCR(wire[p])
           /\ "TWSTO" \notin EvCR(wire[p])

\* step p ended the address phase in failure: a START or an address byte that timed
\* out or met an unexpected status, or the address byte NACKed on the last attempt
AddressPhaseFailed(p) ==
    \/ EvOp(wire[p]) = "START" /\ EvRes(wire[p]) # "ok"
    \/ EvOp(wire[p]) = "ADDR" /\ EvRes(wire[p]) \in {"bad", "timeout"}
    \/ /\ EvOp(wire[p]) = "ADDR" /\ EvRes(wire[p]) = "nack"
       /\ Cardinality({q \in 1 .. p : EvOp(wire[q]) = "ADDR"}) = RetryBudget + 1

\* C23: after a failed address phase I2Cdev_writeBytes and I2Cdev_writeWords write no
\* register-address byte and no data byte to the data register.
C23_NoBytesAfterFailedAddress ==
    call.op \in WriteOps
    => \A p \in 1 .. Len(wire) :
         AddressPhaseFailed(p)
         => \A q \in p + 1 .. Len(wire) : EvOp(wire[q]) \notin {"REG", "DATA", "MSB", "LSB"}

\* v with bit n set (on) or cleared, every other bit as in v
WithBit(v, n, on) ==
    IF on THEN (IF Bit(v, n) = 1 THEN v ELSE v + Pow2(n))
    ELSE (IF Bit(v, n) = 1 THEN v - Pow2(n) ELSE v)

\* the call ended with a write transaction of n data bytes in which every step up to
\* the last data byte was acknowledged
WroteFrame(n) ==
    /\ Len(wire) >= n + 4
    /\ LET f == SubSeq(wire, Len(wire) - n - 3, Len(wire)) IN
       /\ EvOp(f[1]) = "START" /\ EvOp(f[2]) = "ADDR" /\ EvOp(f[3]) = "REG"
       /\ EvDR(f[2]) = 2 * call.devAddr /\ EvDR(f[3]) = call.regAddr
       /\ \A k \in 1 .. n + 3 : EvRes(f[k]) = "ok"
       /\ \A k \in 4 .. n + 3 : EvOp(f[k]) \in {"DATA", "MSB", "LSB"}
       /\ EvOp(f[n + 4]) = "STOP"

\* data byte k of that transaction
Written(k, n) == EvDR(wire[Len(wire) - n - 1 + k])

\* the 16-bit register at regAddr before the call, most significant byte first
WordBefore == hist.mem[call.regAddr] * 256 + hist.mem[(call.regAddr + 1) % DevSize]

\* C24: when I2Cdev_writeBit or I2Cdev_writeBitW has written to the device, whether
\* its register read succeeded or not, what it wrote is the register's content before
\* the call with bit bitNum set (data nonzero) or cleared (data zero) and no other bit
\* changed.
C24_WriteBitChangesOneBit ==
    /\ (Done /\ call.op = "I2Cdev_writeBit" /\ WroteFrame(1))
       => /\ Written(1, 1) = WithBit(hist.mem[call.regAddr], call.bit, call.value # 0)
          /\ mem[call.regAddr] = Written(1, 1)
    /\ (Done /\ call.op = "I2Cdev_writeBitW" /\ WroteFrame(2))
       => Written(1, 2) * 256 + Written(2, 2) = WithBit(WordBefore, call.bit, call.value # 0)

\* C25: an I2Cdev_readBytes call whose Fastwire_readBuf returned 0 returns length,
\* for every length in 0..255, every timeout and however far the millisecond clock
\* advanced during the call.
C25_ClockNeverFailsCompletedRead ==
    (Done /\ call.op = "I2Cdev_readBytes" /\ fwret = 0) => ret = call.length

====
